---- MODULE Spec2Model ----
(***************************************************************************)
(* Model of the price-bet program (src/src/processor.rs, state.rs,         *)
(* instruction.rs).  The ledger is a store of accounts keyed by address.   *)
(* Every instruction handler is one operator from (ledger, accounts and    *)
(* arguments supplied) to (result code, ledger), and one action applies    *)
(* it.  The clock sysvar and the oracle price account are accounts the     *)
(* caller supplies with every instruction, so the time and the price are   *)
(* inputs of the handlers.                                                 *)
(*                                                                         *)
(* Cross-program invocations (system transfer, token transfer, token       *)
(* set_authority) are modelled by their effect on balances and on the      *)
(* token authority, and fail when the source holds too little or the       *)
(* authority named in the instruction is not the account's authority or    *)
(* has not signed.  The oracle always holds a current aggregate price, and  *)
(* every record account is large enough and rent-exempt.                   *)
(*                                                                         *)
(* `history` records which instructions have succeeded: the bets created   *)
(* and cancelled, the accepted-bet accounts written and, of these, the     *)
(* ones whose current record was finalized.  `quote` holds the acceptor's  *)
(* payment as AcceptBet computes it from 64-bit operands, beyond the       *)
(* small balances of the ledger.                                           *)
(***************************************************************************)
EXTENDS Integers, Sequences, FiniteSets, TLC

\* ------------------------------------------------------------- bounds
MaxTime == 1
PriceSpread == 1
EscrowFunds == 400
AcceptorFunds == 3

\* ------------------------------------------------------------- addresses
ProgramId == "program"
TokenProgram == "spl_token"
Loader == "loader"
PythProgram == "pyth"
DefaultPubkey == "default"

Users == {"alice", "bob", "carol"}
BetAccounts == {"B1", "B2"}
AcceptedAccounts == {"A1", "A2"}
MarketAccounts == {"M1", "M2"}
BetEscrows == {"E1", "T1"}
AcceptedEscrows == {ProgramId, "T2", "A1"}
PaymentAccounts == {"pa", "pb", "pc"}
FeeAccount == "fee"
ProductAccounts == {"prod"}
PriceAccounts == {"px", "px2"}
Mint == "mint"

FundAccounts ==
    BetEscrows \cup AcceptedEscrows \cup AcceptedAccounts \cup PaymentAccounts
    \cup {FeeAccount, DefaultPubkey}

\* The program that owns each account (AccountInfo.owner); it never changes.
OwnerOf(k) ==
    IF k \in BetAccounts \cup AcceptedAccounts \cup MarketAccounts \cup {"E1"}
    THEN ProgramId
    ELSE IF k \in {"T1", "T2"} \cup PaymentAccounts \cup {FeeAccount} THEN TokenProgram
    ELSE IF k \in ProductAccounts \cup PriceAccounts THEN PythProgram
    ELSE Loader

\* The mint of a token account (TokenAccount.mint): one mint is in use.
MintOf(k) == Mint

\* rent.is_exempt(lamports, data_len) of a record account
IsRentExempt(k) == k \in BetAccounts \cup AcceptedAccounts

\* The payment account each user holds.
PaymentOf(u) == IF u = "alice" THEN "pa" ELSE IF u = "bob" THEN "pb" ELSE "pc"

\* Token authorities: a user's key, or the program address derived from
\* PREFIX and an escrow key (Pubkey::find_program_address).
UserAuthority(u) == [kind |-> "user", key |-> u]

FindProgramAddressOfAnyEscrow(escrow) == [kind |-> "pda", key |-> DefaultPubkey]

FindProgramAddress(escrow) == [kind |-> "pda", key |-> escrow]
NoAuthority == [kind |-> "none", key |-> DefaultPubkey]

\* Option<i64> as a sequence of length 0 or 1.
None == <<>>
Some(v) == <<v>>
IsSome(o) == Len(o) = 1
Unwrap(o) == o[1]

\* The oracle prices instructions read: the bet price 100 and one price on
\* either side of it.  The clock readings: the start and the expiry.
Prices == {100 - PriceSpread, 100, 100 + PriceSpread}
Times == {0, MaxTime}
Directions == {"Above", "Below"}

\* ------------------------------------------------------------- records
\* Zeroed account data, as try_from_slice_checked reads it from a freshly
\* allocated account.
ZeroBet ==
    [is_initialized |-> FALSE, betting_market |-> DefaultPubkey,
     creator_main_account |-> DefaultPubkey, creator_payment_account |-> DefaultPubkey,
     bet_escrow_account |-> DefaultPubkey, odds |-> 0, bet_size |-> 0,
     pyth_oracle_product_account |-> DefaultPubkey,
     pyth_oracle_price_account |-> DefaultPubkey,
     expiration_time |-> 0, bet_direction |-> "Above", bet_price |-> 0,
     start_price |-> 0,
     cancel_condition |-> [below_price |-> 0, above_price |-> 0, time |-> 0],
     variable_odds |-> None, total_amount_accepted |-> 0, cancelled |-> FALSE]

ZeroAcceptedBet ==
    [bet |-> DefaultPubkey, accepted_bet_escrow_account |-> DefaultPubkey,
     acceptor_main_account |-> DefaultPubkey, acceptor_payment_account |-> DefaultPubkey,
     odds |-> 0, bet_size |-> 0, finalized |-> FALSE]

\* The market records are provisioned before any bet exists: M1 pays in the
\* native unit, M2 in a token.
ProvisionedMarket(m) ==
    [owner |-> "alice", fee_commission_account |-> FeeAccount,
     sol_payment |-> (m = "M1"),
     payment_mint |-> IF m = "M1" THEN None ELSE Some(Mint),
     pyth_program_id |-> PythProgram]

VARIABLES market, bet, accepted, lamports, amount, authority, history, quote

vars == <<market, bet, accepted, lamports, amount, authority, history, quote>>

\* The ledger as one value, so that a handler is a function of it.
Ledger ==
    [market |-> market, bet |-> bet, accepted |-> accepted,
     lamports |-> lamports, amount |-> amount, authority |-> authority]

\* ------------------------------------------------------------- host
\* A handler's result: the code it returns and the ledger it leaves.
Done(st) == [err |-> "Ok", st |-> st]


AbortKeepsPartial(err, before, partial) == [err |-> err, st |-> partial]

\* An instruction that returns Err is discarded by the host together with
\* everything it did: the ledger is the one before the instruction.
Abort(err, before, partial) == [err |-> err, st |-> before]

\* ------------------------------------------------------------- invocations
\* invoke(system_instruction::transfer(from, to, lamports))
SystemTransfer(st, from, to, n) ==
    IF st.lamports[from] < n
    THEN [ok |-> FALSE, st |-> st]
    ELSE [ok |-> TRUE,
          st |-> [st EXCEPT !.lamports =
                     [[st.lamports EXCEPT ![from] = @ - n] EXCEPT ![to] = @ + n]]]

TokenTransferUnfunded(st, from, to, auth, signers, n) ==
    IF st.authority[from] # auth \/ auth \notin signers
    THEN [ok |-> FALSE, st |-> st]
    ELSE [ok |-> TRUE,
          st |-> [st EXCEPT !.amount =
                     [[st.amount EXCEPT ![from] = @ - n] EXCEPT ![to] = @ + n]]]

\* invoke(spl_token::instruction::transfer(source, destination, authority, amount)),
\* signers being the keys that signed the transaction or the invocation.
TokenTransfer(st, from, to, auth, signers, n) ==
    IF st.authority[from] # auth \/ auth \notin signers \/ st.amount[from] < n
    THEN [ok |-> FALSE, st |-> st]
    ELSE [ok |-> TRUE,
          st |-> [st EXCEPT !.amount =
                     [[st.amount EXCEPT ![from] = @ - n] EXCEPT ![to] = @ + n]]]

\* invoke(spl_token::instruction::set_authority(account, Some(new), AccountOwner, current))
SetAuthority(st, account, new, current, signers) ==
    IF st.authority[account] # current \/ current \notin signers
    THEN [ok |-> FALSE, st |-> st]
    ELSE [ok |-> TRUE, st |-> [st EXCEPT !.authority[account] = new]]

\* ------------------------------------------------------------- oracle
\* validate_pyth_keys: both accounts belong to the market's oracle program
\* and the product account names the price account ("prod" names "px").
ProductPriceAccount(product) == "px"

ValidatePythKeys(oracle_program_id, product, price_account) ==
    /\ OwnerOf(product) = oracle_program_id
    /\ OwnerOf(price_account) = oracle_program_id
    /\ ProductPriceAccount(product) = price_account

\* ------------------------------------------------------------- CreateBet
CreateOdds == {99, 101}
CreateSizes == {200}
VariableOdds == {None, Some(1)}
Creators == {"alice"}
Acceptors == {"bob"}
Finalizers == {"carol"}

\* The instructions explored supply the accounts a caller reads from the
\* records (Recorded), with every combination of the remaining arguments,
\* and the same instructions with one account replaced by another of its
\* kind, or the signature left out (OneWrong, at one choice of the
\* remaining arguments).
Recorded(key, kind, otherwise) == IF key \in kind THEN key ELSE otherwise

Other(kind, key) == CHOOSE k \in kind : k # key

OneWrong(honest, changes) ==
    {[honest EXCEPT ![changes[n][1]] = changes[n][2]] : n \in 1..Len(changes)}

CreateBetArgs ==
    [bet_size : CreateSizes, odds : CreateOdds, expiration_time : {MaxTime},
     bet_direction : {"Above"}, bet_price : {100},
     cancel_condition : {[below_price |-> 100, above_price |-> 100, time |-> MaxTime - 1]},
     variable_odds : VariableOdds]

CreateBetCall(b, e, m, price, args) ==
    [is_signer |-> TRUE, creator_main_account |-> "alice", bet_state_account |-> b,
     creator_payment_account |-> "pa",
     bet_escrow_account |-> e, betting_market_account |-> m,
     pyth_oracle_product_account |-> "prod", pyth_oracle_price_account |-> "px",
     price |-> price, bet_size |-> args.bet_size, odds |-> args.odds,
     expiration_time |-> args.expiration_time, bet_direction |-> args.bet_direction,
     bet_price |-> args.bet_price, cancel_condition |-> args.cancel_condition,
     variable_odds |-> args.variable_odds]

CreateBetInputs ==
    {CreateBetCall(b, e, m, price, args) :
        b \in BetAccounts, e \in BetEscrows, m \in MarketAccounts, price \in Prices,
        args \in CreateBetArgs}
    \cup UNION {OneWrong(CreateBetCall(b, e, m, 100, CHOOSE args \in CreateBetArgs :
                                                     args.odds = 101 /\ args.variable_odds = None),
                         << <<"is_signer", FALSE>>, <<"pyth_oracle_price_account", "px2">> >>) :
                  b \in BetAccounts, e \in BetEscrows, m \in MarketAccounts}

WriteBetWithoutPrice(old, i) ==
    [old EXCEPT !.is_initialized = TRUE, !.odds = i.odds, !.bet_size = i.bet_size,
                !.creator_main_account = i.creator_main_account,
                !.bet_escrow_account = i.bet_escrow_account,
                !.bet_price = i.bet_price, !.total_amount_accepted = 0, !.cancelled = FALSE]

\* The record CreateBet writes: every field but betting_market is assigned.
WriteBet(old, i) ==
    [old EXCEPT
        !.is_initialized = TRUE,
        !.creator_main_account = i.creator_main_account,
        !.creator_payment_account = i.creator_payment_account,
        !.bet_escrow_account = i.bet_escrow_account,
        !.odds = i.odds,
        !.bet_size = i.bet_size,
        !.pyth_oracle_product_account = i.pyth_oracle_product_account,
        !.pyth_oracle_price_account = i.pyth_oracle_price_account,
        !.expiration_time = i.expiration_time,
        !.bet_direction = i.bet_direction,
        !.bet_price = i.bet_price,
        !.start_price = i.price,
        !.cancel_condition = i.cancel_condition,
        !.variable_odds = i.variable_odds,
        !.total_amount_accepted = 0,
        !.cancelled = FALSE]

CreateOddsUnchecked(odds) == FALSE

\* odds below 100 are refused
InvalidCreateOdds(odds) == odds < 100

InitializedFlagIgnored(b) == FALSE

\* check that the bet state account is not already initialized
AlreadyInitialized(b) == b.is_initialized

\* The checks and the writes that follow the escrow lock, on the ledger `st`
\* the lock left; `before` is the ledger the instruction started from.
CreateBetAfterLock(before, st, i) ==
    LET mk == st.market[i.betting_market_account]
        b == i.bet_state_account
    IN  IF ~ValidatePythKeys(mk.pyth_program_id, i.pyth_oracle_product_account,
                             i.pyth_oracle_price_account)
        THEN Abort("InvalidOracleConfig", before, st)
        ELSE IF AlreadyInitialized(st.bet[b])
        THEN Abort("AccountAlreadyInitialized", before, st)
        ELSE IF InvalidCreateOdds(i.odds)
        THEN Abort("InvalidOdds", before, st)
        ELSE Done([st EXCEPT !.bet[b] = WriteBet(st.bet[b], i)])

ProcessCreateBet(st, i) ==
    LET mk == st.market[i.betting_market_account]
        e == i.bet_escrow_account
        payment == i.creator_payment_account
    IN  IF ~i.is_signer THEN Abort("IncorrectSigner", st, st)
        ELSE IF OwnerOf(i.bet_state_account) # ProgramId THEN Abort("IncorrectOwner", st, st)
        ELSE IF ~IsRentExempt(i.bet_state_account) THEN Abort("NotRentExempt", st, st)
        ELSE IF mk.sol_payment
        THEN IF OwnerOf(e) # ProgramId THEN Abort("IncorrectOwner", st, st)
             ELSE IF st.lamports[e] < i.bet_size THEN Abort("AmountUnderflow", st, st)
             ELSE CreateBetAfterLock(st, st, i)
        ELSE IF OwnerOf(e) # TokenProgram \/ OwnerOf(payment) # TokenProgram
             THEN Abort("IsNotTokenAccount", st, st)
             ELSE IF IsSome(mk.payment_mint)
                     /\ (MintOf(e) # MintOf(payment) \/ MintOf(e) # Unwrap(mk.payment_mint))
             THEN Abort("InvalidMint", st, st)
             ELSE IF st.amount[e] < i.bet_size THEN Abort("AmountUnderflow", st, st)
             ELSE LET lock == SetAuthority(st, e, FindProgramAddress(e),
                                           UserAuthority(i.creator_main_account),
                                           {UserAuthority(i.creator_main_account)})
                  IN  IF ~lock.ok THEN Abort("TokenProgramError", st, lock.st)
                      ELSE CreateBetAfterLock(st, lock.st, i)

\* ------------------------------------------------------------- odds and payouts
FloorDiv(a, d) == IF d > 0 THEN a \div d ELSE (0 - a) \div (0 - d)

\* Rust's i64 division: the quotient is truncated toward zero.
TruncDiv(a, d) ==
    IF (a >= 0) = (d > 0) THEN (IF a >= 0 THEN a ELSE -a) \div (IF d > 0 THEN d ELSE -d)
    ELSE -((IF a >= 0 THEN a ELSE -a) \div (IF d > 0 THEN d ELSE -d))

\* The odds an acceptance is made at, from the bet and the current price.
AcceptanceOdds(b, price) ==
    IF IsSome(b.variable_odds)
    THEN LET price_change == price - b.start_price
             odds_change == IF b.bet_price > b.start_price
                            THEN 0 - TruncDiv(price_change, Unwrap(b.variable_odds))
                            ELSE TruncDiv(price_change, Unwrap(b.variable_odds))
         IN  b.odds + odds_change
    ELSE b.odds

AcceptOddsUnchecked(bet_odds) == FALSE

\* odds below 100 are refused
InvalidAcceptOdds(bet_odds) == bet_odds < 100

AcceptorPaysWholeOdds(bet_size, bet_odds) == (bet_size * bet_odds) \div 100

\* What the acceptor pays for `bet_size` at `bet_odds`.
AcceptorPaymentAmount(bet_size, bet_odds) == (bet_size * (bet_odds - 100)) \div 100

CommissionOfOnePercent(bet_size) == bet_size \div 100

CommissionAmount(bet_size) == bet_size \div 50

FinalizerGetsNothing(bet_size) == 0

FinalizerAmount(bet_size) == CommissionAmount(bet_size) \div 4
WinnerAmount(bet_size) == bet_size - CommissionAmount(bet_size) - FinalizerAmount(bet_size)

CreatorWinsStrictly(bet_direction, price, bet_price) ==
    IF bet_direction = "Above" THEN price > bet_price ELSE price < bet_price

\* Whether the creator wins at the settlement price.
CreatorWins(bet_direction, price, bet_price) ==
    IF bet_direction = "Above" THEN price >= bet_price ELSE price <= bet_price

\* ------------------------------------------------------------- AcceptBet
AcceptSizes == {200, 400}

AcceptBetCall(st, b, a, ae, price, now, size) ==
    [is_signer |-> TRUE, acceptor_main_account |-> "bob",
     acceptor_payment_account |-> "pb", bet_state_account |-> b,
     bet_escrow_account |-> Recorded(st.bet[b].bet_escrow_account, BetEscrows, "E1"),
     accepted_bet_state_account |-> a, accepted_bet_escrow_account |-> ae,
     betting_market_account |-> Recorded(st.bet[b].betting_market, MarketAccounts, "M1"),
     pyth_oracle_price_account |->
         Recorded(st.bet[b].pyth_oracle_price_account, PriceAccounts, "px"),
     price |-> price, now |-> now, bet_size |-> size]

AcceptBetWrong(i) ==
    OneWrong(i, << <<"is_signer", FALSE>>,
                   <<"bet_escrow_account", Other(BetEscrows, i.bet_escrow_account)>>,
                   <<"betting_market_account", Other(MarketAccounts, i.betting_market_account)>>,
                   <<"pyth_oracle_price_account",
                     Other(PriceAccounts, i.pyth_oracle_price_account)>> >>)

AcceptBetInputs(st) ==
    {AcceptBetCall(st, b, a, ae, price, now, size) :
        b \in BetAccounts, a \in AcceptedAccounts, ae \in AcceptedEscrows,
        price \in Prices, now \in Times, size \in AcceptSizes}
    \cup UNION {AcceptBetWrong(AcceptBetCall(st, b, a, ae, 100, 0, 200)) :
                  b \in BetAccounts, a \in AcceptedAccounts, ae \in AcceptedEscrows}

CancelledFlagIgnored(b) == FALSE

\* check bet hasn't been cancelled
BetIsCancelled(b) == b.cancelled

\* BettingMarket::from_account_info succeeds on a betting market account.
IsBettingMarket(k) == k \in MarketAccounts

\* check current price is valid for bet to be accepted
PriceBeyondCancelCondition(b, price) ==
    price > b.cancel_condition.above_price \/ price < b.cancel_condition.below_price

TooLateForCancelConditionOnly(b, now) == now > b.cancel_condition.time

\* check time isn't too late
TooLate(b, now) == now > b.cancel_condition.time \/ now > b.expiration_time

WriteAcceptedBetWithoutEscrow(old, i, bet_odds) ==
    [old EXCEPT !.bet = i.bet_state_account, !.acceptor_main_account = i.acceptor_main_account,
                !.acceptor_payment_account = i.acceptor_payment_account,
                !.bet_size = i.bet_size, !.odds = bet_odds, !.finalized = FALSE]

\* The record AcceptBet writes.
WriteAcceptedBet(old, i, bet_odds) ==
    [old EXCEPT
        !.bet = i.bet_state_account,
        !.accepted_bet_escrow_account = i.accepted_bet_escrow_account,
        !.acceptor_main_account = i.acceptor_main_account,
        !.acceptor_payment_account = i.acceptor_payment_account,
        !.bet_size = i.bet_size,
        !.odds = bet_odds,
        !.finalized = FALSE]

StoreAcceptedBetAndTotal(st, i, bet_odds) ==
    [st EXCEPT
        !.accepted[i.accepted_bet_state_account] = WriteAcceptedBet(@, i, bet_odds),
        !.bet[i.bet_state_account].total_amount_accepted = @ + i.bet_size]

\* write data to accepted bet state account: the only account AcceptBet
\* serializes.
StoreAcceptedBet(st, i, bet_odds) ==
    [st EXCEPT !.accepted[i.accepted_bet_state_account] = WriteAcceptedBet(@, i, bet_odds)]

\* The fund movements of AcceptBet and the write of the record.
AcceptBetPay(st, i, bet_odds) ==
    LET e == i.bet_escrow_account
        ae == i.accepted_bet_escrow_account
        a == i.accepted_bet_state_account
        acceptor == UserAuthority(i.acceptor_main_account)
        payment == i.acceptor_payment_account
        acceptor_payment_amount == AcceptorPaymentAmount(i.bet_size, bet_odds)
        write(s) == Done(StoreAcceptedBet(s, i, bet_odds))
    IN  IF st.market[i.betting_market_account].sol_payment
        THEN IF ae # ProgramId THEN Abort("IncorrectOwner", st, st)
             ELSE IF st.lamports[e] < i.bet_size THEN Abort("AmountUnderflow", st, st)
             ELSE LET moved == [st EXCEPT !.lamports =
                                   [[st.lamports EXCEPT ![e] = @ - i.bet_size]
                                        EXCEPT ![ae] = @ + i.bet_size]]
                      paid == SystemTransfer(moved, payment, ae, acceptor_payment_amount)
                  IN  IF ~paid.ok THEN Abort("SystemProgramError", st, paid.st)
                      ELSE write(paid.st)
        ELSE LET lock == SetAuthority(st, ae, FindProgramAddress(e), acceptor, {acceptor})
                 moved == TokenTransfer(lock.st, e, ae, FindProgramAddress(e),
                                        {FindProgramAddress(e)}, i.bet_size)
                 paid == TokenTransfer(moved.st, payment, ae, acceptor, {acceptor},
                                       acceptor_payment_amount)
             IN  IF ~lock.ok THEN Abort("TokenProgramError", st, lock.st)
                 ELSE IF ~moved.ok THEN Abort("TokenProgramError", st, moved.st)
                 ELSE IF ~paid.ok THEN Abort("TokenProgramError", st, paid.st)
                 ELSE write(paid.st)

ProcessAcceptBet(st, i) ==
    LET b == st.bet[i.bet_state_account]
        bet_odds == AcceptanceOdds(b, i.price)
    IN  IF ~i.is_signer THEN Abort("IncorrectSigner", st, st)
        ELSE IF OwnerOf(i.accepted_bet_state_account) # ProgramId
        THEN Abort("IncorrectOwner", st, st)
        ELSE IF ~IsRentExempt(i.accepted_bet_state_account)
        THEN Abort("NotRentExempt", st, st)
        ELSE IF ~IsBettingMarket(i.betting_market_account)
        THEN Abort("InvalidAccountData", st, st)
        ELSE IF b.betting_market # i.betting_market_account
        THEN Abort("InvalidAccounts", st, st)
        ELSE IF b.bet_escrow_account # i.bet_escrow_account
        THEN Abort("InvalidAccounts", st, st)
        ELSE IF BetIsCancelled(b) THEN Abort("BetCancelled", st, st)
        ELSE IF i.pyth_oracle_price_account # b.pyth_oracle_price_account
        THEN Abort("InvalidAccounts", st, st)
        ELSE IF PriceBeyondCancelCondition(b, i.price)
        THEN Abort("BetNoLongerValid", st, st)
        ELSE IF TooLate(b, i.now) THEN Abort("BetNoLongerValid", st, st)
        ELSE IF IsSome(b.variable_odds) /\ Unwrap(b.variable_odds) = 0
        THEN Abort("Panic", st, st)
        ELSE IF InvalidAcceptOdds(bet_odds) THEN Abort("InvalidOdds", st, st)
        ELSE AcceptBetPay(st, i, bet_odds)

\* ------------------------------------------------------------- CancelBet
CancelBetCall(st, b, payment) ==
    [is_signer |-> TRUE,
     creator_main_account |-> Recorded(st.bet[b].creator_main_account, Users, "alice"),
     creator_payment_account |-> payment, bet_state_account |-> b,
     bet_escrow_account |-> Recorded(st.bet[b].bet_escrow_account, BetEscrows, "E1"),
     betting_market_account |-> Recorded(st.bet[b].betting_market, MarketAccounts, "M1")]

CancelBetWrong(i) ==
    OneWrong(i, << <<"is_signer", FALSE>>,
                   <<"creator_main_account", Other(Users, i.creator_main_account)>>,
                   <<"creator_payment_account",
                     Other(PaymentAccounts, i.creator_payment_account)>>,
                   <<"bet_escrow_account", Other(BetEscrows, i.bet_escrow_account)>>,
                   <<"betting_market_account",
                     Other(MarketAccounts, i.betting_market_account)>> >>)

CancelBetInputs(st) ==
    {CancelBetCall(st, b, "pa") : b \in BetAccounts}
    \cup UNION {CancelBetWrong(CancelBetCall(st, b, "pa")) : b \in BetAccounts}

AnySignerIsCreator(b, signer) == FALSE

\* check creator main account created the bet
NotCreator(b, signer) == b.creator_main_account # signer

AnyEscrowIsCorrect(b, e) == FALSE

\* check it is correct escrow account
WrongEscrow(b, e) == b.bet_escrow_account # e

MarkCancelledToggles(b) == [b EXCEPT !.cancelled = ~@]

MarkCancelledDropsEscrow(b) ==
    [b EXCEPT !.cancelled = TRUE, !.bet_escrow_account = DefaultPubkey]

MarkCancelledForgetsCreator(b) ==
    [b EXCEPT !.cancelled = TRUE, !.creator_payment_account = DefaultPubkey]

\* cancel the bet so no one in future can accept it
MarkCancelled(b) == [b EXCEPT !.cancelled = TRUE]

ProcessCancelBet(st, i) ==
    LET b == st.bet[i.bet_state_account]
        e == i.bet_escrow_account
        refund == IF st.market[i.betting_market_account].sol_payment
                  THEN SystemTransfer(st, e, i.creator_payment_account, st.lamports[e])
                  ELSE TokenTransfer(st, e, i.creator_payment_account, FindProgramAddress(e),
                                     {FindProgramAddress(e)}, st.amount[e])
    IN  IF ~i.is_signer THEN Abort("IncorrectSigner", st, st)
        ELSE IF ~IsBettingMarket(i.betting_market_account)
        THEN Abort("InvalidAccountData", st, st)
        ELSE IF NotCreator(b, i.creator_main_account)
        THEN Abort("InvalidAccounts", st, st)
        ELSE IF b.betting_market # i.betting_market_account
        THEN Abort("InvalidAccounts", st, st)
        ELSE IF WrongEscrow(b, e) THEN Abort("InvalidAccounts", st, st)
        ELSE IF ~refund.ok
        THEN Abort(IF st.market[i.betting_market_account].sol_payment
                   THEN "SystemProgramError" ELSE "TokenProgramError", st, refund.st)
        ELSE Done([refund.st EXCEPT
                      !.bet[i.bet_state_account] = MarkCancelled(refund.st.bet[i.bet_state_account])])

\* ------------------------------------------------------------- FinalizeBet
FinalizeBetCall(st, b, a, ae, finalizer, price, now) ==
    LET m == Recorded(st.bet[b].betting_market, MarketAccounts, "M1")
    IN  [is_signer |-> TRUE, finalizer_main_account |-> finalizer,
         finalizer_payment_account |-> PaymentOf(finalizer),
         commission_fee_account |-> st.market[m].fee_commission_account,
         bet_state_account |-> b, accepted_bet_state_account |-> a,
         accepted_bet_escrow_account |-> ae,
         creator_payment_account |->
             Recorded(st.bet[b].creator_payment_account, PaymentAccounts, "pa"),
         acceptor_payment_account |->
             Recorded(st.accepted[a].acceptor_payment_account, PaymentAccounts, "pb"),
         betting_market_account |-> m,
         pyth_oracle_price_account |->
             Recorded(st.bet[b].pyth_oracle_price_account, PriceAccounts, "px"),
         price |-> price, now |-> now]

FinalizeBetWrong(i) ==
    OneWrong(i, << <<"is_signer", FALSE>>,
                   <<"commission_fee_account", "pa">>,
                   <<"creator_payment_account",
                     Other(PaymentAccounts, i.creator_payment_account)>>,
                   <<"acceptor_payment_account",
                     Other(PaymentAccounts, i.acceptor_payment_account)>>,
                   <<"betting_market_account",
                     Other(MarketAccounts, i.betting_market_account)>>,
                   <<"pyth_oracle_price_account",
                     Other(PriceAccounts, i.pyth_oracle_price_account)>> >>)

FinalizeBetInputs(st) ==
    {FinalizeBetCall(st, b, a, ae, finalizer, price, now) :
        b \in BetAccounts, a \in AcceptedAccounts, ae \in AcceptedEscrows,
        finalizer \in Finalizers, price \in Prices, now \in Times}
    \cup UNION {FinalizeBetWrong(FinalizeBetCall(st, b, a, ae, "carol", 100, MaxTime)) :
                  b \in BetAccounts, a \in AcceptedAccounts, ae \in AcceptedEscrows}

NeverBeforeExpiry(b, now) == FALSE

\* check time is after bet expiration time
BeforeExpiry(b, now) == now < b.expiration_time

\* check bet hasn't already been finalized
AlreadyFinalized(ab) == ab.finalized

FinalizedFlagNotWritten(ab) == ab

\* update accepted bet state, set finalized to true
MarkFinalized(ab) == [ab EXCEPT !.finalized = TRUE]

\* The three payments of FinalizeBet out of the escrow supplied, and the
\* write of the finalized flag.
FinalizeBetPay(st, i) ==
    LET b == st.bet[i.bet_state_account]
        ab == st.accepted[i.accepted_bet_state_account]
        ae == i.accepted_bet_escrow_account
        finalizer_payment == i.finalizer_payment_account
        winner == IF CreatorWins(b.bet_direction, i.price, b.bet_price)
                  THEN i.creator_payment_account ELSE i.acceptor_payment_account
        commission_amount == CommissionAmount(ab.bet_size)
        finalizer_amount == FinalizerAmount(ab.bet_size)
        winner_amount == WinnerAmount(ab.bet_size)
        pda == FindProgramAddress(b.bet_escrow_account)
        write(s) == Done([s EXCEPT !.accepted[i.accepted_bet_state_account] =
                                       MarkFinalized(s.accepted[i.accepted_bet_state_account])])
    IN  IF st.market[i.betting_market_account].sol_payment
        THEN LET t1 == SystemTransfer(st, ae, i.commission_fee_account, commission_amount)
                 t2 == SystemTransfer(t1.st, ae, finalizer_payment, finalizer_amount)
                 t3 == SystemTransfer(t2.st, ae, winner, winner_amount)
             IN  IF ~t1.ok THEN Abort("SystemProgramError", st, t1.st)
                 ELSE IF ~t2.ok THEN Abort("SystemProgramError", st, t2.st)
                 ELSE IF ~t3.ok THEN Abort("SystemProgramError", st, t3.st)
                 ELSE write(t3.st)
        ELSE LET t1 == TokenTransfer(st, ae, i.commission_fee_account, pda, {pda},
                                     commission_amount)
                 t2 == TokenTransfer(t1.st, ae, winner, pda, {pda}, winner_amount)
                 t3 == TokenTransfer(t2.st, ae, finalizer_payment, pda, {pda},
                                     finalizer_amount)
             IN  IF ~t1.ok THEN Abort("TokenProgramError", st, t1.st)
                 ELSE IF ~t2.ok THEN Abort("TokenProgramError", st, t2.st)
                 ELSE IF ~t3.ok THEN Abort("TokenProgramError", st, t3.st)
                 ELSE write(t3.st)

ProcessFinalizeBet(st, i) ==
    LET b == st.bet[i.bet_state_account]
        ab == st.accepted[i.accepted_bet_state_account]
        mk == st.market[i.betting_market_account]
    IN  IF ~i.is_signer THEN Abort("IncorrectSigner", st, st)
        ELSE IF AlreadyFinalized(ab) THEN Abort("BetFinalized", st, st)
        ELSE IF b.betting_market # i.betting_market_account
        THEN Abort("InvalidAccounts", st, st)
        ELSE IF b.pyth_oracle_price_account # i.pyth_oracle_price_account
        THEN Abort("InvalidAccounts", st, st)
        ELSE IF mk.fee_commission_account # i.commission_fee_account
        THEN Abort("InvalidAccounts", st, st)
        ELSE IF b.creator_payment_account # i.creator_payment_account
        THEN Abort("InvalidAccounts", st, st)
        ELSE IF ab.acceptor_payment_account # i.acceptor_payment_account
        THEN Abort("InvalidAccounts", st, st)
        ELSE IF ab.accepted_bet_escrow_account # i.accepted_bet_state_account
        THEN Abort("InvalidAccounts", st, st)
        ELSE IF BeforeExpiry(b, i.now) THEN Abort("BeforeExpiryTime", st, st)
        ELSE FinalizeBetPay(st, i)

\* ------------------------------------------------------------- InitBettingMarket
InitBettingMarketInputs ==
    [is_signer : BOOLEAN, owner_account : {"alice"}, betting_market_account : MarketAccounts,
     commission_fee_account : {FeeAccount}, pyth_program : {PythProgram},
     sol_payment : BOOLEAN, payment_mint : {None, Some(Mint)}]

\* The handler fills a copy of the record and returns without storing it.
ProcessInitBettingMarket(st, i) ==
    IF ~i.is_signer THEN Abort("IncorrectOwner", st, st)
    ELSE IF OwnerOf(i.betting_market_account) # ProgramId THEN Abort("IncorrectOwner", st, st)
    ELSE IF ~i.sol_payment /\ ~IsSome(i.payment_mint) THEN Abort("NoPaymentMintGiven", st, st)
    ELSE Done(st)

\* ------------------------------------------------------------- u64 arithmetic
\* A u64 is its eight bytes, the least significant first.
Byte == 256
U64Bytes == 8

RECURSIVE Bytes(_, _)
\* The `len` low bytes of the natural number n.
Bytes(n, len) == IF len = 0 THEN <<>> ELSE <<n % Byte>> \o Bytes(n \div Byte, len - 1)

\* The u64 of value lo * 256^shift.
U64(lo, shift) ==
    [k \in 1..U64Bytes |-> IF k <= shift THEN 0 ELSE Bytes(lo, U64Bytes)[k - shift]]

RECURSIVE ColumnSum(_, _, _, _)
\* The sum of a[i] * b[k + 1 - i] over the i from `i` up.
ColumnSum(a, b, k, i) ==
    IF i > Len(a) THEN 0
    ELSE (IF k + 1 - i \in 1..Len(b) THEN a[i] * b[k + 1 - i] ELSE 0)
         + ColumnSum(a, b, k, i + 1)

RECURSIVE CarryInto(_, _, _)
\* What the columns below k carry into column k.
CarryInto(a, b, k) ==
    IF k = 1 THEN 0 ELSE (ColumnSum(a, b, k - 1, 1) + CarryInto(a, b, k - 1)) \div Byte

\* The product of two u64 in full, sixteen bytes.
FullProduct(a, b) ==
    [k \in 1..(2 * U64Bytes) |-> (ColumnSum(a, b, k, 1) + CarryInto(a, b, k)) % Byte]

\* The product does not fit in a u64.
Overflows(a, b) == \E k \in (U64Bytes + 1)..(2 * U64Bytes) : FullProduct(a, b)[k] # 0

\* a * b on u64 in a build without overflow checks: the low eight bytes.
WrappingMul(a, b) == SubSeq(FullProduct(a, b), 1, U64Bytes)

RECURSIVE RestAbove(_, _, _)
\* The remainder of the bytes of x above byte k, divided by d.
RestAbove(x, k, d) ==
    IF k >= Len(x) THEN 0 ELSE (RestAbove(x, k + 1, d) * Byte + x[k + 1]) % d

\* x / d for a divisor below 256, byte by byte from the most significant.
DivideBy(x, d) == [k \in 1..Len(x) |-> (RestAbove(x, k, d) * Byte + x[k]) \div d]

\* bet_size * ((bet_odds - 100) as u64) / 100 on u64 operands: the value in
\* a build that wraps on overflow, and a panic on overflow in a build that
\* checks it.
AcceptorPaymentOutcomes(bet_size, odds_over_100) ==
    {[kind |-> "paid", amount |-> DivideBy(WrappingMul(bet_size, odds_over_100), 100)]}
    \cup (IF Overflows(bet_size, odds_over_100) THEN {[kind |-> "panic", amount |-> <<>>]}
          ELSE {})

NoQuote == [bet_size |-> <<>>, odds_over_100 |-> <<>>, outcome |-> [kind |-> "none", amount |-> <<>>]]

\* ------------------------------------------------------------- actions
NoHistory == [created |-> {}, cancelled |-> {}, accepted |-> {}, finalized |-> {}]

Record(h, op, b, a) ==
    IF op = "CreateBet" THEN [h EXCEPT !.created = @ \cup {b}]
    ELSE IF op = "CancelBet" THEN [h EXCEPT !.cancelled = @ \cup {b}]
    ELSE IF op = "AcceptBet"
    THEN [h EXCEPT !.accepted = @ \cup {a}, !.finalized = @ \ {a}]
    ELSE IF op = "FinalizeBet" THEN [h EXCEPT !.finalized = @ \cup {a}]
    ELSE h

\* The step an instruction takes: the ledger becomes the one its handler
\* returns, and a success is recorded.
Apply(r, op, b, a) ==
    /\ market' = r.st.market
    /\ bet' = r.st.bet
    /\ accepted' = r.st.accepted
    /\ lamports' = r.st.lamports
    /\ amount' = r.st.amount
    /\ authority' = r.st.authority
    /\ history' = IF r.err = "Ok" THEN Record(history, op, b, a) ELSE history
    /\ quote' = quote

InitBettingMarket ==
    \E i \in InitBettingMarketInputs :
        Apply(ProcessInitBettingMarket(Ledger, i), "InitBettingMarket",
              DefaultPubkey, DefaultPubkey)

CreateBet ==
    \E i \in CreateBetInputs :
        Apply(ProcessCreateBet(Ledger, i), "CreateBet", i.bet_state_account, DefaultPubkey)

AcceptBet ==
    \E i \in AcceptBetInputs(Ledger) :
        Apply(ProcessAcceptBet(Ledger, i), "AcceptBet", i.bet_state_account,
              i.accepted_bet_state_account)

CancelBet ==
    \E i \in CancelBetInputs(Ledger) :
        Apply(ProcessCancelBet(Ledger, i), "CancelBet", i.bet_state_account, DefaultPubkey)

FinalizeBet ==
    \E i \in FinalizeBetInputs(Ledger) :
        Apply(ProcessFinalizeBet(Ledger, i), "FinalizeBet", i.bet_state_account,
              i.accepted_bet_state_account)

\* ------------------------------------------------------------- Init
\* The betting_market field of a bet account is never assigned by the
\* program, so it holds whatever the account held when it was handed to
\* CreateBet: zeroes, or a market address.
PriorMarketRefs == {DefaultPubkey} \cup MarketAccounts

InitialAuthority(k) ==
    IF k = "T1" \/ k = "pa" \/ k = FeeAccount THEN UserAuthority("alice")
    ELSE IF k \in {"T2", "pb"} \cup AcceptedAccounts THEN UserAuthority("bob")
    ELSE IF k = "pc" THEN UserAuthority("carol")
    ELSE NoAuthority

\* The ledger before any instruction: the markets are provisioned, the bet
\* accounts hold `prior` where betting_market lies, the bet escrows hold
\* `escrow_funds` and the acceptor's payment account `acceptor_funds`.
InitialLedger(prior, escrow_funds, acceptor_funds) ==
    [market |-> [m \in MarketAccounts |-> ProvisionedMarket(m)],
     bet |-> [b \in BetAccounts |-> [ZeroBet EXCEPT !.betting_market = prior]],
     accepted |-> [a \in AcceptedAccounts |-> ZeroAcceptedBet],
     lamports |-> [k \in FundAccounts |->
                      IF k = "E1" THEN escrow_funds
                      ELSE IF k = "pb" THEN acceptor_funds ELSE 0],
     amount |-> [k \in FundAccounts |->
                    IF k = "T1" THEN escrow_funds
                    ELSE IF k = "pb" THEN acceptor_funds ELSE 0],
     authority |-> [k \in FundAccounts |-> InitialAuthority(k)]]

Start(st, h) ==
    /\ market = st.market
    /\ bet = st.bet
    /\ accepted = st.accepted
    /\ lamports = st.lamports
    /\ amount = st.amount
    /\ authority = st.authority
    /\ history = h
    /\ quote = NoQuote

Init ==
    \E prior \in PriorMarketRefs :
        Start(InitialLedger(prior, EscrowFunds, AcceptorFunds), NoHistory)

Next == InitBettingMarket \/ CreateBet \/ AcceptBet \/ CancelBet \/ FinalizeBet

Spec == Init /\ [][Next]_vars

\* ------------------------------------------------------------- odds arithmetic
\* The odds and payment arithmetic of AcceptBet over a range of odds, odds
\* steps, prices and sizes: one bet is created and accepted once.
OddsPriceSpread == 2
OddsEscrowFunds == 200
OddsAcceptorFunds == 100
OddsPrices == (100 - OddsPriceSpread)..(100 + OddsPriceSpread)
OddsSizes == {0, 1, 100, 150}
OddsSteps == {None} \cup {Some(v) : v \in {-2, -1, 1, 2}}

OddsMarket(st) == Recorded(st.bet["B1"].betting_market, MarketAccounts, "M1")

CreateBetOddsInputs(st) ==
    {CreateBetCall("B1", IF st.market[OddsMarket(st)].sol_payment THEN "E1" ELSE "T1",
                   OddsMarket(st), price, args) :
        price \in OddsPrices,
        args \in [bet_size : {OddsEscrowFunds}, odds : {99, 100, 101, 150},
                  expiration_time : {MaxTime}, bet_direction : {"Above"}, bet_price : {100},
                  cancel_condition : {[below_price |-> 100 - OddsPriceSpread,
                                       above_price |-> 100 + OddsPriceSpread,
                                       time |-> t] : t \in {0, MaxTime, MaxTime + 1}},
                  variable_odds : OddsSteps]}

AcceptBetOddsInputs(st) ==
    {AcceptBetCall(st, "B1", "A1",
                   IF st.market[OddsMarket(st)].sol_payment THEN ProgramId ELSE "T2",
                   price, 0, size) :
        price \in (100 - OddsPriceSpread - 1)..(100 + OddsPriceSpread), size \in OddsSizes}

CreateBetOdds ==
    \E i \in CreateBetOddsInputs(Ledger) :
        Apply(ProcessCreateBet(Ledger, i), "CreateBet", i.bet_state_account, DefaultPubkey)

AcceptBetOdds ==
    /\ history.accepted = {}
    /\ \E i \in AcceptBetOddsInputs(Ledger) :
           Apply(ProcessAcceptBet(Ledger, i), "AcceptBet", i.bet_state_account,
                 i.accepted_bet_state_account)

InitOdds ==
    \E prior \in MarketAccounts :
        Start(InitialLedger(prior, OddsEscrowFunds, OddsAcceptorFunds), NoHistory)

NextOdds == CreateBetOdds \/ AcceptBetOdds

SpecOdds == InitOdds /\ [][NextOdds]_vars

\* ------------------------------------------------------------- settlement arithmetic
\* The payout arithmetic of FinalizeBet over every stake up to MaxBetSize and
\* both directions: a token bet of the stake was created at price 100 and
\* accepted in full at even odds, and is then finalized at any price.
MaxBetSize == 1000

SettleBet(size, direction) ==
    [bet_size |-> size, odds |-> 100, expiration_time |-> MaxTime,
     bet_direction |-> direction, bet_price |-> 100,
     cancel_condition |-> [below_price |-> 100, above_price |-> 100, time |-> MaxTime],
     variable_odds |-> None]

AcceptedInFull(size, direction) ==
    LET opened == ProcessCreateBet(InitialLedger("M2", MaxBetSize, AcceptorFunds),
                                   CreateBetCall("B1", "T1", "M2", 100,
                                                 SettleBet(size, direction))).st
    IN  ProcessAcceptBet(opened, AcceptBetCall(opened, "B1", "A1", "A1", 100, 0, size)).st

FinalizeBetSettleInputs(st) ==
    {FinalizeBetCall(st, "B1", "A1", "A1", "carol", price, MaxTime) : price \in Prices}

FinalizeBetSettle ==
    \E i \in FinalizeBetSettleInputs(Ledger) :
        Apply(ProcessFinalizeBet(Ledger, i), "FinalizeBet", i.bet_state_account,
              i.accepted_bet_state_account)

InitSettle ==
    \E size \in 0..MaxBetSize, direction \in Directions :
        Start(AcceptedInFull(size, direction),
              [NoHistory EXCEPT !.created = {"B1"}, !.accepted = {"A1"}])

NextSettle == FinalizeBetSettle

SpecSettle == InitSettle /\ [][NextSettle]_vars

\* ------------------------------------------------------------- properties
\* The signed FinalizeBet instructions naming the accepted bet `a`.
SignedFinalizeBets(a) ==
    {i \in FinalizeBetInputs(Ledger) : i.is_signer /\ i.accepted_bet_state_account = a}

AnyPrices == (100 - PriceSpread - 1)..(100 + PriceSpread + 1)
AnyTimes == 0..(MaxTime + 1)
AnySizes == AcceptSizes \cup {0, 1, 1000}

\* The signed AcceptBet instructions against the bet `b` that supply the
\* market, escrow and oracle accounts its record names.
AcceptBetsOn(b) ==
    {AcceptBetCall(Ledger, b, a, ae, price, now, size) :
        a \in AcceptedAccounts, ae \in AcceptedEscrows,
        price \in AnyPrices, now \in AnyTimes, size \in AnySizes}

CreateBetWritesOpenBet ==
    \A i \in CreateBetInputs :
        LET r == ProcessCreateBet(Ledger, i)
            written == r.st.bet[i.bet_state_account]
        IN  r.err = "Ok" =>
                /\ i.odds >= 100
                /\ written.is_initialized
                /\ ~written.cancelled
                /\ written.start_price = i.price
                /\ written.total_amount_accepted = 0

\* A CreateBet has succeeded at an oracle price other than the bet price.
BetCreatedAwayFromBetPrice ==
    \E b \in history.created :
        /\ bet[b].is_initialized
        /\ bet[b].start_price # bet[b].bet_price
        /\ bet[b].start_price \in Prices

\* A failed instruction leaves the ledger as it was.
NothingChangedIfFailed(r) == r.err # "Ok" => r.st = Ledger

InitializedOddsAtLeast100 ==
    /\ \A b \in BetAccounts : bet[b].is_initialized => bet[b].odds >= 100
    /\ \A i \in CreateBetInputs :
           LET r == ProcessCreateBet(Ledger, i)
           IN  /\ i.odds < 100 =>
                      /\ r.err # "Ok"
                      /\ r.st.bet[i.bet_state_account] = bet[i.bet_state_account]
                      /\ ProcessCreateBet(Ledger, [i EXCEPT !.odds = 100]).err = "Ok"
                             => r.err = "InvalidOdds"
               /\ \A b \in BetAccounts :
                      bet[b].is_initialized => r.st.bet[b].odds >= bet[b].odds
    /\ \A b \in BetAccounts : bet[b].is_initialized =>
           /\ \A i \in AcceptBetInputs(Ledger) :
                  ProcessAcceptBet(Ledger, i).st.bet[b].odds >= bet[b].odds
           /\ \A i \in CancelBetInputs(Ledger) :
                  ProcessCancelBet(Ledger, i).st.bet[b].odds >= bet[b].odds
           /\ \A i \in FinalizeBetInputs(Ledger) :
                  ProcessFinalizeBet(Ledger, i).st.bet[b].odds >= bet[b].odds

\* A bet has been created, and a CreateBet on the other, uninitialized record
\* is refused for its odds alone.
LowOddsCreateRefused ==
    /\ \E b \in history.created : bet[b].is_initialized /\ bet[b].odds >= 100
    /\ \E i \in CreateBetInputs :
           /\ i.odds < 100
           /\ ~bet[i.bet_state_account].is_initialized
           /\ ProcessCreateBet(Ledger, i).err = "InvalidOdds"
           /\ ProcessCreateBet(Ledger, [i EXCEPT !.odds = 100]).err = "Ok"
\* What FinalizeBet adds to the token balance of `k`.
Gained(r, k) == r.st.amount[k] - amount[k]

\* C3: a successful FinalizeBet of an accepted bet of size bet_size pays
\* bet_size / 50 as commission, a quarter of the commission to the finalizer
\* and the remainder of bet_size to the winner, the quotients truncated; the
\* three payments add up to bet_size, which is what leaves the escrow; for
\* bet_size 1000 they are 20, 5 and 975.
PayoutSplitsBetSize ==
    \A i \in FinalizeBetSettleInputs(Ledger) :
        LET r == ProcessFinalizeBet(Ledger, i)
            bet_size == accepted[i.accepted_bet_state_account].bet_size
            commission == Gained(r, i.commission_fee_account)
            finalizerFee == Gained(r, i.finalizer_payment_account)
            winnerAmount == Gained(r, i.creator_payment_account)
                            + Gained(r, i.acceptor_payment_account)
        IN  r.err = "Ok" =>
                /\ commission = bet_size \div 50
                /\ finalizerFee = (bet_size \div 50) \div 4
                /\ winnerAmount = bet_size - (bet_size \div 50) - ((bet_size \div 50) \div 4)
                /\ commission + finalizerFee + winnerAmount = bet_size
                /\ Gained(r, i.accepted_bet_escrow_account) = 0 - bet_size
                /\ bet_size = 1000 =>
                       commission = 20 /\ finalizerFee = 5 /\ winnerAmount = 975

\* An accepted bet of size 1000 has been finalized and has paid 20 and 5.
Settled1000 ==
    \E a \in history.finalized :
        /\ accepted[a].finalized
        /\ accepted[a].bet_size = 1000
        /\ amount[FeeAccount] = 20
        /\ amount["pc"] = 5
        /\ amount["pa"] + amount["pb"] = AcceptorFunds + 975

\* C4: a successful FinalizeBet pays the winner amount to the creator's
\* payment account exactly when the direction is Above and the price is at
\* least bet_price, or the direction is Below and the price is at most
\* bet_price, and to the acceptor's payment account otherwise; with Above and
\* bet_price 100 the price 100 pays the creator and 99 the acceptor.
WinnerByDirection ==
    \A i \in FinalizeBetSettleInputs(Ledger) :
        LET r == ProcessFinalizeBet(Ledger, i)
            b == bet[i.bet_state_account]
            bet_size == accepted[i.accepted_bet_state_account].bet_size
            winnerAmount == bet_size - (bet_size \div 50) - ((bet_size \div 50) \div 4)
            toCreator == Gained(r, i.creator_payment_account)
            toAcceptor == Gained(r, i.acceptor_payment_account)
            creatorWins == \/ b.bet_direction = "Above" /\ i.price >= b.bet_price
                           \/ b.bet_direction = "Below" /\ i.price <= b.bet_price
        IN  r.err = "Ok" =>
                /\ creatorWins => toCreator = winnerAmount /\ toAcceptor = 0
                /\ ~creatorWins => toCreator = 0 /\ toAcceptor = winnerAmount
                /\ (b.bet_direction = "Above" /\ b.bet_price = 100 /\ i.price = 100)
                       => toCreator = winnerAmount /\ toAcceptor = 0
                /\ (b.bet_direction = "Above" /\ b.bet_price = 100 /\ i.price = 99)
                       => toCreator = 0 /\ toAcceptor = winnerAmount

\* An accepted bet Above 100 with a winner amount to pay is finalized at 100
\* in favour of the creator and at 99 in favour of the acceptor.
SettledAtBoundary ==
    /\ "A1" \in history.accepted
    /\ bet["B1"].bet_direction = "Above" /\ bet["B1"].bet_price = 100
    /\ \E i, j \in FinalizeBetSettleInputs(Ledger) :
           LET ri == ProcessFinalizeBet(Ledger, i)
               rj == ProcessFinalizeBet(Ledger, j)
           IN  /\ i.price = 100 /\ ri.err = "Ok"
               /\ Gained(ri, i.creator_payment_account) > 0
               /\ j.price = 99 /\ rj.err = "Ok"
               /\ Gained(rj, j.acceptor_payment_account) > 0

\* The odds AcceptBet wrote into the accepted-bet record.
OddsOf(r, i) == r.st.accepted[i.accepted_bet_state_account].odds

\* C6: an AcceptBet whose odds, computed from the bet and the oracle price,
\* are below 100 never succeeds, and fails with InvalidOdds when the bet is
\* open and the price and time are inside its cancel condition; every
\* accepted-bet record written has odds of at least 100.
AcceptedOddsAtLeast100 ==
    /\ \A a \in history.accepted : accepted[a].odds >= 100
    /\ \A i \in AcceptBetOddsInputs(Ledger) :
           LET r == ProcessAcceptBet(Ledger, i)
               b == bet[i.bet_state_account]
           IN  /\ r.err = "Ok" => OddsOf(r, i) >= 100
               /\ (b.is_initialized /\ AcceptanceOdds(b, i.price) < 100) =>
                      /\ r.err # "Ok"
                      /\ ( /\ ~b.cancelled
                           /\ i.price >= b.cancel_condition.below_price
                           /\ i.price <= b.cancel_condition.above_price
                           /\ i.now <= b.cancel_condition.time
                           /\ i.now <= b.expiration_time ) => r.err = "InvalidOdds"

\* A bet has been accepted at odds of at least 100, and its acceptance at
\* another price inside its cancel condition is refused for its odds.
LowOddsAcceptRefused ==
    /\ \E a \in history.accepted : accepted[a].bet = "B1" /\ accepted[a].odds >= 100
    /\ \E i \in AcceptBetOddsInputs(Ledger) :
           /\ AcceptanceOdds(bet[i.bet_state_account], i.price) < 100
           /\ ProcessAcceptBet(Ledger, i).err = "InvalidOdds"

\* C7: for a bet with variable_odds set, the odds of acceptance are monotonic
\* in the oracle price: when bet_price > start_price they never increase as
\* the price increases, otherwise they never decrease as it increases.
OddsMonotonicInPrice ==
    \A b \in history.created : IsSome(bet[b].variable_odds) =>
        \A i, j \in AcceptBetOddsInputs(Ledger) :
            LET ri == ProcessAcceptBet(Ledger, i)
                rj == ProcessAcceptBet(Ledger, j)
            IN  ( /\ i.bet_state_account = b /\ j.bet_state_account = b
                  /\ i.bet_size = j.bet_size
                  /\ i.price <= j.price
                  /\ ri.err = "Ok" /\ rj.err = "Ok" ) =>
                    IF bet[b].bet_price > bet[b].start_price
                    THEN OddsOf(rj, j) <= OddsOf(ri, i)
                    ELSE OddsOf(rj, j) >= OddsOf(ri, i)

\* What AcceptBet takes from the acceptor's payment account.
Paid(r, i) ==
    (lamports[i.acceptor_payment_account] + amount[i.acceptor_payment_account])
    - (r.st.lamports[i.acceptor_payment_account] + r.st.amount[i.acceptor_payment_account])

\* C8: a successful AcceptBet of size `size` at acceptance odds `odds` takes
\* size * (odds - 100) / 100 from the acceptor, the quotient truncated:
\* nothing at odds 100, and 50 for size 100 at odds 150.
AcceptorPaysOddsShare ==
    \A i \in AcceptBetOddsInputs(Ledger) :
        LET r == ProcessAcceptBet(Ledger, i)
            odds == OddsOf(r, i)
        IN  r.err = "Ok" =>
                /\ Paid(r, i) = (i.bet_size * (odds - 100)) \div 100
                /\ odds = 100 => Paid(r, i) = 0
                /\ (i.bet_size = 100 /\ odds = 150) => Paid(r, i) = 50

\* A bet has been accepted for size 100 at odds 150 and the acceptor has
\* paid 50.
Accepted100At150 ==
    \E a \in history.accepted :
        /\ accepted[a].bet_size = 100
        /\ accepted[a].odds = 150
        /\ lamports["pb"] + amount["pb"] = 2 * OddsAcceptorFunds - 50
\* P holds of the ledger every explored instruction leaves.
EveryOutcome(P(_)) ==
    /\ \A i \in CreateBetInputs : P(ProcessCreateBet(Ledger, i).st)
    /\ \A i \in AcceptBetInputs(Ledger) : P(ProcessAcceptBet(Ledger, i).st)
    /\ \A i \in CancelBetInputs(Ledger) : P(ProcessCancelBet(Ledger, i).st)
    /\ \A i \in FinalizeBetInputs(Ledger) : P(ProcessFinalizeBet(Ledger, i).st)

\* C11: a bet on which CancelBet has succeeded is cancelled ever after: no
\* CreateBet, AcceptBet, CancelBet or FinalizeBet leaves a cancelled bet
\* record with cancelled = false.
CancelledStaysCancelled ==
    /\ \A b \in history.cancelled : bet[b].cancelled
    /\ \A b \in BetAccounts : bet[b].cancelled =>
           EveryOutcome(LAMBDA st : st.bet[b].cancelled)

\* A bet has been cancelled, a CreateBet on its record gets as far as the
\* initialization check, and a second CancelBet on it succeeds.
CancelledAndCreateTried ==
    \E b \in history.cancelled :
        /\ \E i \in CreateBetInputs :
               /\ i.bet_state_account = b
               /\ ProcessCreateBet(Ledger, i).err = "AccountAlreadyInitialized"
        /\ \E i \in CancelBetInputs(Ledger) :
               i.bet_state_account = b /\ ProcessCancelBet(Ledger, i).err = "Ok"

\* C12: no instruction changes the escrow reference of an initialized bet
\* record.
EscrowReferenceKept ==
    \A b \in BetAccounts : bet[b].is_initialized =>
        EveryOutcome(LAMBDA st : st.bet[b].bet_escrow_account = bet[b].bet_escrow_account)

\* A created bet has been cancelled, and a CreateBet naming another escrow
\* for its record is turned away at the initialization check.
OtherEscrowCreateTried ==
    \E b \in history.created \cap history.cancelled :
        /\ bet[b].bet_escrow_account \in BetEscrows
        /\ \E i \in CreateBetInputs :
               /\ i.bet_state_account = b
               /\ i.bet_escrow_account # bet[b].bet_escrow_account
               /\ ProcessCreateBet(Ledger, i).err = "AccountAlreadyInitialized"

\* The ledger with the bet account `b` as it was before its CreateBet.
WithFreshBet(b) ==
    [Ledger EXCEPT !.bet[b] = [ZeroBet EXCEPT !.betting_market = bet[b].betting_market]]

\* C13: a CreateBet on an initialized bet record never succeeds and leaves
\* the record and every escrow authority as they were; it fails with
\* AccountAlreadyInitialized when the same instruction would succeed on the
\* record uninitialized.
CreateOnInitializedRefused ==
    \A i \in CreateBetInputs :
        LET b == i.bet_state_account
            r == ProcessCreateBet(Ledger, i)
        IN  bet[b].is_initialized =>
                /\ r.err # "Ok"
                /\ r.st.bet[b] = bet[b]
                /\ r.st.authority = authority
                /\ ProcessCreateBet(WithFreshBet(b), i).err = "Ok"
                       => r.err = "AccountAlreadyInitialized"

\* A bet has been created and a CreateBet on its record, valid but for the
\* record being initialized, reassigns an escrow authority before it is
\* refused.
CreateOnInitializedTried ==
    \E i \in CreateBetInputs :
        /\ i.bet_state_account \in history.created
        /\ bet[i.bet_state_account].is_initialized
        /\ ProcessCreateBet(WithFreshBet(i.bet_state_account), i).err = "Ok"
        /\ ProcessCreateBet(Ledger, i).err = "AccountAlreadyInitialized"
        /\ ~market[i.betting_market_account].sol_payment
        /\ authority[i.bet_escrow_account] = UserAuthority(i.creator_main_account)
\* C14: an AcceptBet succeeds only on an accepted-bet account that holds no
\* record yet, and no instruction changes a finalized accepted-bet record.
AcceptedRecordWrittenOnce ==
    /\ \A i \in AcceptBetInputs(Ledger) :
           ProcessAcceptBet(Ledger, i).err = "Ok"
               => accepted[i.accepted_bet_state_account] = ZeroAcceptedBet
    /\ \A a \in AcceptedAccounts : accepted[a].finalized =>
           EveryOutcome(LAMBDA st : st.accepted[a] = accepted[a])
\* The signed AcceptBet and CancelBet instructions against the bet `b` that
\* supply exactly the market, escrow and oracle accounts its record holds,
\* whatever they are, at prices and times that include zero.
AcceptBetsVerbatim(b) ==
    {[AcceptBetCall(Ledger, b, a, ae, price, now, size) EXCEPT
          !.bet_escrow_account = bet[b].bet_escrow_account,
          !.betting_market_account = bet[b].betting_market,
          !.pyth_oracle_price_account = bet[b].pyth_oracle_price_account] :
        a \in AcceptedAccounts, ae \in AcceptedEscrows,
        price \in Prices \cup {0}, now \in Times, size \in AnySizes}

CancelBetsVerbatim(b) ==
    {[CancelBetCall(Ledger, b, PaymentOf(u)) EXCEPT
          !.creator_main_account = u,
          !.bet_escrow_account = bet[b].bet_escrow_account,
          !.betting_market_account = bet[b].betting_market] : u \in Users}

FinalizeOnlyFromExpiry ==
    \A i \in FinalizeBetInputs(Ledger) : \A n \in AnyTimes :
        LET expiration_time == bet[i.bet_state_account].expiration_time
            r == ProcessFinalizeBet(Ledger, [i EXCEPT !.now = n])
            atExpiry == ProcessFinalizeBet(Ledger, [i EXCEPT !.now = expiration_time])
        IN  /\ n < expiration_time =>
                   /\ r.err # "Ok"
                   /\ r.st = Ledger
                   /\ atExpiry.err = "Ok" => r.err = "BeforeExpiryTime"
            /\ n >= expiration_time =>
                   /\ r.err # "BeforeExpiryTime"
                   /\ atExpiry.err = "Ok" => r.err = "Ok"

\* An accepted bet is open; its FinalizeBet is refused one time unit before
\* expiry and succeeds at expiry.
FinalizeTriedBeforeExpiry ==
    \E i \in FinalizeBetInputs(Ledger) :
        LET expiration_time == bet[i.bet_state_account].expiration_time
        IN  /\ i.accepted_bet_state_account \in history.accepted
            /\ accepted[i.accepted_bet_state_account].bet = i.bet_state_account
            /\ ~accepted[i.accepted_bet_state_account].finalized
            /\ expiration_time - 1 \in AnyTimes
            /\ ProcessFinalizeBet(Ledger, [i EXCEPT !.now = expiration_time - 1]).err
                   = "BeforeExpiryTime"
            /\ ProcessFinalizeBet(Ledger, [i EXCEPT !.now = expiration_time]).err = "Ok"
Balance(st, k) == st.lamports[k] + st.amount[k]

\* C18: a successful AcceptBet of size `size` takes exactly size from the
\* bet's escrow and exactly size * (odds - 100) / 100 from the acceptor's
\* payment account, adds exactly their sum to the accepted-bet escrow, and
\* writes an accepted-bet record holding the bet, that escrow, the acceptor,
\* the acceptor's payment account, bet_size = size, the acceptance odds and
\* finalized = false.
AcceptMovesStakeAndPayment ==
    \A i \in AcceptBetOddsInputs(Ledger) :
        LET r == ProcessAcceptBet(Ledger, i)
            b == bet[i.bet_state_account]
            acceptanceOdds ==
                IF IsSome(b.variable_odds)
                THEN IF b.bet_price > b.start_price
                     THEN b.odds - TruncDiv(i.price - b.start_price, Unwrap(b.variable_odds))
                     ELSE b.odds + TruncDiv(i.price - b.start_price, Unwrap(b.variable_odds))
                ELSE b.odds
            requiredPayment == (i.bet_size * (acceptanceOdds - 100)) \div 100
        IN  r.err = "Ok" =>
                /\ Balance(r.st, i.bet_escrow_account)
                       = Balance(Ledger, i.bet_escrow_account) - i.bet_size
                /\ Balance(r.st, i.acceptor_payment_account)
                       = Balance(Ledger, i.acceptor_payment_account) - requiredPayment
                /\ Balance(r.st, i.accepted_bet_escrow_account)
                       = Balance(Ledger, i.accepted_bet_escrow_account)
                         + i.bet_size + requiredPayment
                /\ r.st.accepted[i.accepted_bet_state_account]
                       = [bet |-> i.bet_state_account,
                          accepted_bet_escrow_account |-> i.accepted_bet_escrow_account,
                          acceptor_main_account |-> i.acceptor_main_account,
                          acceptor_payment_account |-> i.acceptor_payment_account,
                          bet_size |-> i.bet_size, odds |-> acceptanceOdds,
                          finalized |-> FALSE]

\* A bet has been accepted for size 150 at odds above 100: its escrow holds
\* 150 less, and the accepted-bet escrow holds the 150 and the payment.
Accepted150WithPayment ==
    \E a \in history.accepted :
        LET ab == accepted[a]
            paid == (150 * (ab.odds - 100)) \div 100
        IN  /\ ab.bet = "B1" /\ ab.bet_size = 150 /\ ab.odds > 100 /\ ~ab.finalized
            /\ Balance(Ledger, bet["B1"].bet_escrow_account) = OddsEscrowFunds - 150
            /\ Balance(Ledger, ab.accepted_bet_escrow_account) = 150 + paid
            /\ Balance(Ledger, ab.acceptor_payment_account) = 2 * OddsAcceptorFunds - paid
\* What the account `k` holds in the currency of the market `m`.
Holds(st, m, k) == IF st.market[m].sol_payment THEN st.lamports[k] ELSE st.amount[k]

\* C19: a successful CancelBet leaves the bet's escrow empty, adds all the
\* escrow held to the creator's payment account that the bet record names,
\* and sets cancelled = true.
CancelRefundsRecordedAccount ==
    \A i \in CancelBetInputs(Ledger) :
        LET r == ProcessCancelBet(Ledger, i)
            b == bet[i.bet_state_account]
            m == i.betting_market_account
            remaining == Holds(Ledger, m, b.bet_escrow_account)
        IN  r.err = "Ok" =>
                /\ Holds(r.st, m, b.bet_escrow_account) = 0
                /\ Holds(r.st, m, b.creator_payment_account)
                       = Holds(Ledger, m, b.creator_payment_account) + remaining
                /\ r.st.bet[i.bet_state_account].cancelled
\* C20: a CancelBet succeeds only if it is signed by the creator the bet
\* record names and supplies the market and the escrow the record names;
\* otherwise it fails, with IncorrectSigner when unsigned and InvalidAccounts
\* when the signer, the market or the escrow differs, and changes neither
\* the cancelled flag nor any balance.
CancelOnlyByCreator ==
    \A i \in CancelBetInputs(Ledger) :
        LET r == ProcessCancelBet(Ledger, i)
            b == bet[i.bet_state_account]
            asRecorded == /\ i.creator_main_account = b.creator_main_account
                          /\ i.betting_market_account = b.betting_market
                          /\ i.bet_escrow_account = b.bet_escrow_account
        IN  /\ r.err = "Ok" => i.is_signer /\ asRecorded
            /\ ~i.is_signer => r.err = "IncorrectSigner"
            /\ (i.is_signer /\ ~asRecorded) => r.err = "InvalidAccounts"
            /\ ~(i.is_signer /\ asRecorded) =>
                   /\ r.st.bet = bet
                   /\ r.st.lamports = lamports
                   /\ r.st.amount = amount

\* A bet with a funded escrow is open, and CancelBet on it is refused
\* without the signature, from another signer, with another escrow and with
\* another market, while the creator's own CancelBet succeeds.
CancelTriedByOthers ==
    \E b \in history.created \ history.cancelled :
        /\ Balance(Ledger, bet[b].bet_escrow_account) > 0
        /\ \E i \in CancelBetInputs(Ledger) :
               i.bet_state_account = b /\ ProcessCancelBet(Ledger, i).err = "Ok"
        /\ \E i \in CancelBetInputs(Ledger) :
               /\ i.bet_state_account = b /\ ~i.is_signer
               /\ ProcessCancelBet(Ledger, i).err = "IncorrectSigner"
        /\ \A field \in {"creator_main_account", "betting_market_account", "bet_escrow_account"} :
               \E i \in CancelBetInputs(Ledger) :
                   /\ i.bet_state_account = b /\ i.is_signer
                   /\ i[field] # CancelBetCall(Ledger, b, "pa")[field]
                   /\ ProcessCancelBet(Ledger, i).err = "InvalidAccounts"
\* The FinalizeBet instruction `i` as the user `u` would sign it, paid into
\* that user's payment account.
FinalizedBy(i, u) ==
    [i EXCEPT !.finalizer_main_account = u, !.finalizer_payment_account = PaymentOf(u)]

\* C21: a successful FinalizeBet, whichever user signs it as finalizer, moves
\* bet_size / 50 from the accepted-bet escrow supplied to the market's fee
\* account, a quarter of that to the finalizer's payment account and the
\* rest of bet_size to the winner's payment account, changes no other
\* balance and no other record, and sets finalized = true; whether it
\* succeeds does not depend on who the finalizer is.
FinalizePaysThreeAndCloses ==
    \A i \in FinalizeBetInputs(Ledger) : \A u \in Users :
        LET j == FinalizedBy(i, u)
            r == ProcessFinalizeBet(Ledger, j)
            a == j.accepted_bet_state_account
            b == bet[j.bet_state_account]
            bet_size == accepted[a].bet_size
            commission == bet_size \div 50
            finalizerFee == commission \div 4
            winnerAmount == bet_size - commission - finalizerFee
            winner == IF \/ b.bet_direction = "Above" /\ j.price >= b.bet_price
                         \/ b.bet_direction = "Below" /\ j.price <= b.bet_price
                      THEN b.creator_payment_account
                      ELSE accepted[a].acceptor_payment_account
            credit(k) == (IF k = market[j.betting_market_account].fee_commission_account
                          THEN commission ELSE 0)
                         + (IF k = j.finalizer_payment_account THEN finalizerFee ELSE 0)
                         + (IF k = winner THEN winnerAmount ELSE 0)
            debit(k) == IF k = j.accepted_bet_escrow_account
                        THEN commission + finalizerFee + winnerAmount ELSE 0
        IN  /\ r.err = ProcessFinalizeBet(Ledger, i).err
            /\ r.err = "Ok" =>
                   /\ \A k \in FundAccounts :
                          Balance(r.st, k) = Balance(Ledger, k) + credit(k) - debit(k)
                   /\ r.st.accepted = [accepted EXCEPT ![a].finalized = TRUE]
                   /\ r.st.bet = bet
                   /\ r.st.market = market

\* An accepted bet with a stake is open after expiry, and its FinalizeBet
\* succeeds for each of the three users as finalizer, paying the fee
\* account, the finalizer and the winner out of the escrow.
FinalizedByAnyone ==
    \E i \in FinalizeBetInputs(Ledger) :
        /\ i.accepted_bet_state_account \in history.accepted
        /\ accepted[i.accepted_bet_state_account].bet_size >= 200
        /\ \A u \in Users :
               LET r == ProcessFinalizeBet(Ledger, FinalizedBy(i, u))
               IN  /\ r.err = "Ok"
                   /\ r.st.accepted[i.accepted_bet_state_account].finalized
                   /\ Balance(r.st, FeeAccount) > Balance(Ledger, FeeAccount)
                   /\ Balance(r.st, PaymentOf(u)) > Balance(Ledger, PaymentOf(u))
                   /\ Balance(r.st, i.accepted_bet_escrow_account)
                          = Balance(Ledger, i.accepted_bet_escrow_account)
                            - accepted[i.accepted_bet_state_account].bet_size
\* C22: a signed FinalizeBet of an accepted bet that is not finalized fails
\* with InvalidAccounts exactly when the market, the oracle price account,
\* the commission account, the creator's or the acceptor's payment account
\* or the accepted-bet escrow it supplies is not the one recorded; supplying
\* the recorded accepted-bet escrow is not refused, another escrow is.
FinalizeChecksRecordedAccounts ==
    \A i \in FinalizeBetInputs(Ledger) :
        LET r == ProcessFinalizeBet(Ledger, i)
            b == bet[i.bet_state_account]
            ab == accepted[i.accepted_bet_state_account]
            asRecorded ==
                /\ i.betting_market_account = b.betting_market
                /\ i.pyth_oracle_price_account = b.pyth_oracle_price_account
                /\ i.commission_fee_account
                       = market[i.betting_market_account].fee_commission_account
                /\ i.creator_payment_account = b.creator_payment_account
                /\ i.acceptor_payment_account = ab.acceptor_payment_account
                /\ i.accepted_bet_escrow_account = ab.accepted_bet_escrow_account
        IN  ( /\ i.is_signer
              /\ i.accepted_bet_state_account \in history.accepted
              /\ ab.bet = i.bet_state_account
              /\ ~ab.finalized )
                => (r.err = "InvalidAccounts" <=> ~asRecorded)
\* C23: no two initialized bet records name the same escrow account, and no
\* CreateBet succeeds that names the escrow of another initialized bet
\* record, whether the market pays in the native unit or in a token.
EscrowLockedOnce ==
    /\ \A b1, b2 \in BetAccounts :
           (b1 # b2 /\ bet[b1].is_initialized /\ bet[b2].is_initialized)
               => bet[b1].bet_escrow_account # bet[b2].bet_escrow_account
    /\ \A i \in CreateBetInputs :
           (\E b \in BetAccounts \ {i.bet_state_account} :
                bet[b].is_initialized /\ bet[b].bet_escrow_account = i.bet_escrow_account)
               => ProcessCreateBet(Ledger, i).err # "Ok"
\* The AcceptBet instruction `i` for one unit more than the bet escrow holds.
BeyondEscrow(st, i) ==
    [i EXCEPT !.bet_size = Holds(st, i.betting_market_account, i.bet_escrow_account) + 1]

\* The ledger with `n` in the escrow `e`.
WithEscrowFunds(e, n) == [Ledger EXCEPT !.lamports[e] = n, !.amount[e] = n]

\* No account holds less than nothing.
NoNegativeBalance(st) ==
    \A k \in FundAccounts : st.lamports[k] >= 0 /\ st.amount[k] >= 0

\* An AcceptBet for more than the bet escrow holds fails and moves nothing,
\* and when the escrow's balance is all that stands in its way the code it
\* fails with is `underflow(i)`.
OversizedAcceptRefused(underflow(_)) ==
    \A i \in AcceptBetInputs(Ledger) :
        LET j == BeyondEscrow(Ledger, i)
            r == ProcessAcceptBet(Ledger, j)
        IN  bet[j.bet_state_account].is_initialized =>
                /\ r.err # "Ok"
                /\ r.st.lamports = lamports
                /\ r.st.amount = amount
                /\ ProcessAcceptBet(WithEscrowFunds(j.bet_escrow_account, j.bet_size), j).err = "Ok"
                       => r.err = underflow(j)

\* C24 as stated: no balance is ever negative, after any instruction, and an
\* AcceptBet for more than the bet escrow holds fails with AmountUnderflow
\* and moves no funds.
OversizedAcceptUnderflows ==
    /\ NoNegativeBalance(Ledger)
    /\ EveryOutcome(NoNegativeBalance)
    /\ OversizedAcceptRefused(LAMBDA i : "AmountUnderflow")

\* C24: no balance is ever negative, after any instruction, and an AcceptBet
\* for more than the bet escrow holds fails and moves no funds: with
\* AmountUnderflow on a market paying in the native unit, and with the token
\* program's error on a market paying in a token.
EscrowNeverOverdrawn ==
    /\ NoNegativeBalance(Ledger)
    /\ EveryOutcome(NoNegativeBalance)
    /\ OversizedAcceptRefused(LAMBDA i : IF market[i.betting_market_account].sol_payment
                                         THEN "AmountUnderflow" ELSE "TokenProgramError")

\* Part of a native bet's escrow has been moved out by an acceptance, and an
\* AcceptBet for one unit more than is left fails with AmountUnderflow, for
\* no other reason than the escrow's balance.
OversizedAcceptTried ==
    \E i \in AcceptBetInputs(Ledger) :
        LET j == BeyondEscrow(Ledger, i)
        IN  /\ \E a \in history.accepted : accepted[a].bet = j.bet_state_account
            /\ market[j.betting_market_account].sol_payment
            /\ lamports[j.bet_escrow_account] > 0
            /\ lamports[j.bet_escrow_account] < EscrowFunds
            /\ ProcessAcceptBet(Ledger, j).err = "AmountUnderflow"
            /\ ProcessAcceptBet(WithEscrowFunds(j.bet_escrow_account, j.bet_size), j).err = "Ok"
\* Two AcceptBet instructions against the bet `b` by the same acceptor, with
\* different accepted-bet records and different accepted-bet escrows, each
\* of which meets the preconditions of an acceptance: the bet is open, the
\* accounts are the ones it names, the price and the time are inside its
\* cancel condition, the odds are at least 100, the accepted-bet escrow is
\* the program's (native unit) or the acceptor's (token), and the acceptor
\* can pay for both.
AcceptPairs(b) ==
    {p \in {<<AcceptBetCall(Ledger, b, "A1", ae1, price, 0, size1),
              AcceptBetCall(Ledger, b, "A2", ae2, price, 0, size2)>> :
                ae1, ae2 \in AcceptedEscrows \cup AcceptedAccounts,
                price \in Prices, size1, size2 \in AcceptSizes} :
        LET rec == bet[b]
            native == market[p[1].betting_market_account].sol_payment
            odds == AcceptanceOdds(rec, p[1].price)
        IN  /\ rec.is_initialized /\ ~rec.cancelled
            /\ rec.betting_market = p[1].betting_market_account
            /\ ~PriceBeyondCancelCondition(rec, p[1].price)
            /\ ~TooLate(rec, p[1].now)
            /\ odds >= 100
            /\ p[1].accepted_bet_escrow_account # p[2].accepted_bet_escrow_account
            /\ \A n \in 1..2 :
                   IF native THEN OwnerOf(p[n].accepted_bet_escrow_account) = ProgramId
                   ELSE authority[p[n].accepted_bet_escrow_account]
                            = UserAuthority(p[n].acceptor_main_account)
            /\ AcceptorPaymentAmount(p[1].bet_size, odds)
                + AcceptorPaymentAmount(p[2].bet_size, odds)
                   <= Holds(Ledger, p[1].betting_market_account, p[1].acceptor_payment_account)}

\* The results of the instruction `i` and then the instruction `j`.
InOrder(i, j) ==
    LET first == ProcessAcceptBet(Ledger, i)
    IN  <<first, ProcessAcceptBet(first.st, j)>>

\* C25: of two acceptances of one bet with different accepted-bet records
\* and escrows, both succeed in either order and leave the same ledger when
\* their sizes together fit in the bet escrow; otherwise at most one
\* succeeds in either order, and the bet escrow is never overdrawn.
AcceptOrderIrrelevant ==
    \A b \in BetAccounts : \A p \in AcceptPairs(b) :
        LET e == p[1].bet_escrow_account
            held == Holds(Ledger, p[1].betting_market_account, e)
            forth == InOrder(p[1], p[2])
            back == InOrder(p[2], p[1])
            ok(rs) == {n \in 1..2 : rs[n].err = "Ok"}
        IN  /\ NoNegativeBalance(forth[2].st) /\ NoNegativeBalance(back[2].st)
            /\ IF p[1].bet_size + p[2].bet_size <= held
               THEN /\ ok(forth) = {1, 2} /\ ok(back) = {1, 2}
                    /\ forth[2].st = back[2].st
               ELSE Cardinality(ok(forth)) <= 1 /\ Cardinality(ok(back)) <= 1
\* q is the quotient of a by d rounded toward zero: what is left of a has
\* the sign of a and is smaller than d in magnitude.
IsTruncatedQuotient(q, a, d) ==
    LET rest == a - q * d
        abs(x) == IF x < 0 THEN 0 - x ELSE x
    IN  /\ abs(rest) < abs(d)
        /\ rest = 0 \/ (rest > 0) = (a > 0)

\* C26: the odds a successful AcceptBet records are the bet's odds when
\* variable_odds is unset; when it is set they are the bet's odds minus the
\* quotient of (price - start_price) by variable_odds if bet_price >
\* start_price, and plus that quotient otherwise, the quotient rounded
\* toward zero.
AcceptanceOddsTruncate ==
    \A i \in AcceptBetOddsInputs(Ledger) :
        LET r == ProcessAcceptBet(Ledger, i)
            b == bet[i.bet_state_account]
        IN  r.err = "Ok" =>
                IF IsSome(b.variable_odds)
                THEN \E q \in (0 - 2 * OddsPriceSpread - 1)..(2 * OddsPriceSpread + 1) :
                         /\ IsTruncatedQuotient(q, i.price - b.start_price, Unwrap(b.variable_odds))
                         /\ OddsOf(r, i) = IF b.bet_price > b.start_price
                                           THEN b.odds - q ELSE b.odds + q
                ELSE OddsOf(r, i) = b.odds

\* A bet with an odds step of 2 is accepted one price unit below its start
\* price at its own odds, the quotient -1 / 2 being rounded to zero and not
\* down to -1.
AcceptedBelowStartPrice ==
    /\ bet["B1"].is_initialized
    /\ \E i \in AcceptBetOddsInputs(Ledger) :
           LET r == ProcessAcceptBet(Ledger, i)
               b == bet[i.bet_state_account]
           IN  /\ b.variable_odds = Some(2)
               /\ i.price - b.start_price = 0 - 1
               /\ r.err = "Ok"
               /\ OddsOf(r, i) = b.odds
               /\ OddsOf(r, i) # b.odds + ((i.price - b.start_price) \div 2)
\* C27: a successful CreateBet leaves a bet record whose betting_market is
\* the market account the instruction supplied, so that an AcceptBet and a
\* CancelBet on the bet that supply this market account and otherwise the
\* accounts the record names do not fail with InvalidAccounts.
CreateBetRecordsMarket ==
    \A i \in CreateBetInputs :
        LET r == ProcessCreateBet(Ledger, i)
            b == i.bet_state_account
            m == i.betting_market_account
            accept == [AcceptBetCall(r.st, b, "A1", "T2", i.bet_price, 0, i.bet_size)
                           EXCEPT !.betting_market_account = m]
            cancel == [CancelBetCall(r.st, b, i.creator_payment_account)
                           EXCEPT !.betting_market_account = m]
        IN  r.err = "Ok" =>
                /\ r.st.bet[b].betting_market = m
                /\ ProcessAcceptBet(r.st, accept).err # "InvalidAccounts"
                /\ ProcessCancelBet(r.st, cancel).err # "InvalidAccounts"
\* C28: a signed InitBettingMarket that selects token payment without a
\* mint fails with NoPaymentMintGiven and leaves the market record as it
\* was; a successful one stores the owner, the fee account, the payment
\* mode, the oracle program and, for token payment, the mint in the market
\* record; and every stored market record that pays in a token has a mint.
InitBettingMarketStoresRecord ==
    /\ \A m \in MarketAccounts : ~market[m].sol_payment => IsSome(market[m].payment_mint)
    /\ \A i \in InitBettingMarketInputs :
           LET r == ProcessInitBettingMarket(Ledger, i)
               stored == r.st.market[i.betting_market_account]
           IN  /\ (i.is_signer /\ ~i.sol_payment /\ ~IsSome(i.payment_mint)) =>
                      r.err = "NoPaymentMintGiven" /\ r.st.market = market
               /\ r.err = "Ok" =>
                      /\ stored.owner = i.owner_account
                      /\ stored.fee_commission_account = i.commission_fee_account
                      /\ stored.sol_payment = i.sol_payment
                      /\ stored.pyth_program_id = i.pyth_program
                      /\ ~i.sol_payment => stored.payment_mint = i.payment_mint
\* C29: no instruction changes an initialized bet record other than
\* CancelBet setting its cancelled flag: AcceptBet and FinalizeBet leave
\* every bet record as it was, and total_amount_accepted is zero in every
\* bet record in every state, whatever has been accepted.
BetRecordOnlyCancelled ==
    /\ \A b \in BetAccounts : bet[b].total_amount_accepted = 0
    /\ \A i \in AcceptBetInputs(Ledger) : ProcessAcceptBet(Ledger, i).st.bet = bet
    /\ \A i \in FinalizeBetInputs(Ledger) : ProcessFinalizeBet(Ledger, i).st.bet = bet
    /\ \A b \in BetAccounts : bet[b].is_initialized =>
           /\ \A i \in CreateBetInputs : ProcessCreateBet(Ledger, i).st.bet[b] = bet[b]
           /\ \A i \in CancelBetInputs(Ledger) :
                  LET after == ProcessCancelBet(Ledger, i).st.bet[b]
                  IN  after = bet[b] \/ after = [bet[b] EXCEPT !.cancelled = TRUE]

\* A bet has been created, accepted for a stake, cancelled and finalized,
\* and its record says that nothing was accepted.
FilledBetSaysNothingAccepted ==
    \E b \in history.created \cap history.cancelled : \E a \in history.finalized :
        /\ accepted[a].bet = b
        /\ accepted[a].bet_size >= 200
        /\ accepted[a].finalized
        /\ bet[b].cancelled
        /\ bet[b].total_amount_accepted = 0
\* The AcceptBet instructions against the bet `b` on a market paying in the
\* native unit that meet every precondition of an acceptance save the one
\* on the accepted-bet escrow: the bet is open, the accounts are the ones it
\* names, the price and the time are inside its cancel condition, the odds
\* are at least 100, the bet escrow holds the size and the acceptor the
\* payment.
NativeAcceptBets(b) ==
    {i \in {AcceptBetCall(Ledger, b, a, ae, price, now, size) :
                a \in AcceptedAccounts, ae \in AcceptedEscrows \cup AcceptedAccounts,
                price \in Prices, now \in Times, size \in AcceptSizes} :
        LET rec == bet[b]
            odds == AcceptanceOdds(rec, i.price)
        IN  /\ rec.is_initialized /\ ~rec.cancelled
            /\ rec.betting_market = i.betting_market_account
            /\ market[i.betting_market_account].sol_payment
            /\ ~PriceBeyondCancelCondition(rec, i.price)
            /\ ~TooLate(rec, i.now)
            /\ odds >= 100
            /\ i.bet_size <= lamports[i.bet_escrow_account]
            /\ AcceptorPaymentAmount(i.bet_size, odds) <= lamports[i.acceptor_payment_account]}

\* C30: on a market paying in the native unit, an AcceptBet that meets every
\* other precondition fails with IncorrectOwner exactly when the program
\* does not own the accepted-bet escrow account, and succeeds with an
\* accepted-bet escrow account that the program owns.
NativeAcceptChecksEscrowOwner ==
    \A b \in BetAccounts : \A i \in NativeAcceptBets(b) :
        LET r == ProcessAcceptBet(Ledger, i)
            owned == OwnerOf(i.accepted_bet_escrow_account) = ProgramId
        IN  /\ r.err = "IncorrectOwner" <=> ~owned
            /\ (owned /\ i.accepted_bet_escrow_account # ProgramId) => r.err = "Ok"
FillEscrowFunds == 200
FillAcceptorFunds == 100
FillEscrows == AcceptedAccounts \cup {"T2"}
FillSizes == {50, 100}

FillBet(odds) ==
    [bet_size |-> FillEscrowFunds, odds |-> odds, expiration_time |-> MaxTime,
     bet_direction |-> "Above", bet_price |-> 100,
     cancel_condition |-> [below_price |-> 100, above_price |-> 100, time |-> MaxTime],
     variable_odds |-> None]

OpenForFills(odds) ==
    ProcessCreateBet(InitialLedger("M2", FillEscrowFunds, FillAcceptorFunds),
                     CreateBetCall("B1", "T1", "M2", 100, FillBet(odds))).st

AcceptBetFillInputs(st) ==
    {AcceptBetCall(st, "B1", a, ae, 100, 0, size) :
        a \in AcceptedAccounts, ae \in FillEscrows, size \in FillSizes}

FinalizeBetFillInputs(st) ==
    {FinalizeBetCall(st, "B1", a, ae, "carol", price, MaxTime) :
        a \in AcceptedAccounts, ae \in FillEscrows, price \in {99, 100}}

AcceptBetFill ==
    \E i \in AcceptBetFillInputs(Ledger) :
        Apply(ProcessAcceptBet(Ledger, i), "AcceptBet", i.bet_state_account,
              i.accepted_bet_state_account)

FinalizeBetFill ==
    \E i \in FinalizeBetFillInputs(Ledger) :
        Apply(ProcessFinalizeBet(Ledger, i), "FinalizeBet", i.bet_state_account,
              i.accepted_bet_state_account)

InitFills ==
    \E odds \in {100, 150} :
        Start(OpenForFills(odds), [NoHistory EXCEPT !.created = {"B1"}])

NextFills == AcceptBetFill \/ FinalizeBetFill

SpecFills == InitFills /\ [][NextFills]_vars

FilledBy(b, a) ==
    IF a \in history.accepted /\ accepted[a].bet = b THEN accepted[a].bet_size ELSE 0

\* C33: the sizes of the accepted-bet records held against a bet never add
\* up to more than the bet's bet_size.
FillsWithinBetSize ==
    \A b \in history.created :
        FilledBy(b, "A1") + FilledBy(b, "A2") <= bet[b].bet_size
\* C34: the accepted-bet escrow of every accepted-bet record that is not
\* finalized holds at least the record's bet_size, and a FinalizeBet at the
\* bet's expiration time that supplies the accounts the records name
\* succeeds.
AcceptedFillSettleable ==
    \A a \in history.accepted : ~accepted[a].finalized =>
        LET ab == accepted[a]
            e == ab.accepted_bet_escrow_account
            m == bet[ab.bet].betting_market
            i == FinalizeBetCall(Ledger, ab.bet, a, e, "carol", 100, bet[ab.bet].expiration_time)
        IN  /\ Holds(Ledger, m, e) >= ab.bet_size
            /\ ProcessFinalizeBet(Ledger, i).err = "Ok"
\* ------------------------------------------------------------- payment arithmetic
\* The acceptor's payment over sizes and odds up to the width of a u64:
\* sizes with one significant byte at every byte position, and odds
\* likewise as far as an i64 reaches; one payment is computed.
QuoteSizes == {U64(lo, shift) : lo \in {0, 1, 2, 50, 100, 128, 255}, shift \in 0..(U64Bytes - 1)}
QuoteOddsOver100 == {U64(lo, shift) : lo \in {0, 1, 2, 50, 100}, shift \in 0..(U64Bytes - 1)}

QuotePayment ==
    /\ quote = NoQuote
    /\ \E bet_size \in QuoteSizes, odds_over_100 \in QuoteOddsOver100 :
           \E outcome \in AcceptorPaymentOutcomes(bet_size, odds_over_100) :
               quote' = [bet_size |-> bet_size, odds_over_100 |-> odds_over_100,
                         outcome |-> outcome]
    /\ UNCHANGED <<market, bet, accepted, lamports, amount, authority, history>>

InitPayment == Start(InitialLedger("M1", EscrowFunds, AcceptorFunds), NoHistory)

NextPayment == QuotePayment

SpecPayment == InitPayment /\ [][NextPayment]_vars

\* C35: the payment AcceptBet computes from a 64-bit size and odds of at
\* least 100 is the quotient of size * (odds - 100) by 100 in the integers:
\* the product never exceeds 64 bits, so the acceptor never pays less.
PaymentIsExactQuotient ==
    quote.outcome.kind = "paid" =>
        /\ ~Overflows(quote.bet_size, quote.odds_over_100)
        /\ quote.outcome.amount \o Bytes(0, U64Bytes)
               = DivideBy(FullProduct(quote.bet_size, quote.odds_over_100), 100)
\* The ledger with no accepted-bet record written.
WithoutFills == [Ledger EXCEPT !.accepted = [a \in AcceptedAccounts |-> ZeroAcceptedBet]]

\* What an instruction that turns the ledger `before` into `after` adds to
\* each account.
Movements(before, after) ==
    [k \in FundAccounts |-> Balance(after, k) - Balance(before, k)]

\* C36: a CancelBet has the same result whether or not accepted-bet records
\* exist, changes no accepted-bet record and no balance of an accepted-bet
\* escrow, and after a successful CancelBet every FinalizeBet has the
\* result and makes the payments it would have without the cancellation.
CancelLeavesFillsAlone ==
    \A c \in CancelBetInputs(Ledger) :
        LET r == ProcessCancelBet(Ledger, c)
        IN  /\ r.err = ProcessCancelBet(WithoutFills, c).err
            /\ r.st.accepted = accepted
            /\ \A a \in history.accepted :
                   Balance(r.st, accepted[a].accepted_bet_escrow_account)
                       = Balance(Ledger, accepted[a].accepted_bet_escrow_account)
            /\ r.err = "Ok" =>
                   \A f \in FinalizeBetInputs(Ledger) :
                       LET uncancelled == ProcessFinalizeBet(Ledger, f)
                           cancelled == ProcessFinalizeBet(r.st, f)
                       IN  /\ cancelled.err = uncancelled.err
                           /\ Movements(r.st, cancelled.st) = Movements(Ledger, uncancelled.st)
                           /\ cancelled.st.accepted = uncancelled.st.accepted

\* A bet with an open fill and funds left in its escrow is cancelled by its
\* creator, and the fill is finalized after the cancellation, paying the
\* fee account and the winner.
CancelledWithOpenFill ==
    \E c \in CancelBetInputs(Ledger) : \E f \in FinalizeBetInputs(Ledger) :
        LET r == ProcessCancelBet(Ledger, c)
            settled == ProcessFinalizeBet(r.st, f)
            a == f.accepted_bet_state_account
        IN  /\ a \in history.accepted
            /\ accepted[a].bet = c.bet_state_account
            /\ f.bet_state_account = c.bet_state_account
            /\ ~accepted[a].finalized
            /\ accepted[a].bet_size >= 200
            /\ Balance(Ledger, c.bet_escrow_account) > 0
            /\ r.err = "Ok"
            /\ r.st.bet[c.bet_state_account].cancelled
            /\ settled.err = "Ok"
            /\ Movements(r.st, settled.st)[FeeAccount] > 0
            /\ settled.st.accepted[a].finalized
====
